---- MODULE Spec2Model ----
(***************************************************************************)
(* A model of the palettez / resonare theme store                          *)
(* (src/palettez/src/index.ts) and of the storage adapter contract it      *)
(* consumes (src/unnamed/part_002).                                        *)
(*                                                                         *)
(* JavaScript objects are modelled as total functions over Keys whose      *)
(* missing properties hold Absent; the value `undefined` of an object-     *)
(* typed field is the distinguished function UndefObj.  The object held    *)
(* by #systemOptions is mutated in place by updateSystemOption, so it      *)
(* lives in a heap and the store holds a reference to it.                  *)
(***************************************************************************)
EXTENDS Integers, Sequences, FiniteSets, TLC

\* ------------------------------------------------------------------------
\* Bounds of the model
\* ------------------------------------------------------------------------
MaxSteps == 3
MaxSyncSteps == 8
MaxRegistrySteps == 5
MaxCloneSteps == 3
MaxBareSteps == 3
MaxOverlapSteps == 4
MaxSharedSteps == 4

\* ------------------------------------------------------------------------
\* Values
\* ------------------------------------------------------------------------
Absent == "absent"
Undefined == "undefined"
NoPair == <<>>
NoMedia == <<>>
NoReg == <<>>
NoRef == 1 - 1

PACKAGE_NAME == "palettez"
OtherKey == "other"
\* the keys handed to the registry
RegKeys == {PACKAGE_NAME, OtherKey}

\* Property names of a themes object, in the insertion order of an object
\* built by spreading over the defaults; "zz" is a dimension the
\* configuration does not declare.
KeyOrder == <<"cs", "ct", "zz">>
Keys == {KeyOrder[n] : n \in 1..Len(KeyOrder)}

Queries == {"q1", "q2"}

Stores == {"A", "B"}

\* the configuration passed to createThemeStore: colorScheme and contrast
ThemeConfig ==
  [cs |-> [options |-> << [value |-> "system", media |-> <<"q1", "dark", "light">>],
                          [value |-> "light", media |-> NoMedia],
                          [value |-> "dark", media |-> NoMedia] >>,
           defaultOption |-> Absent],
   ct |-> [options |-> << [value |-> "auto", media |-> <<"q1", "high", "standard">>],
                          [value |-> "standard", media |-> NoMedia],
                          [value |-> "high", media |-> NoMedia],
                          [value |-> "auto2", media |-> <<"q2", "standard", "high">>] >>,
           defaultOption |-> "standard"]]

Dims == DOMAIN ThemeConfig

EmptyObj == [k \in Keys |-> Absent]
UndefObj == [k \in Keys |-> Undefined]
EmptySys == [k \in Keys |-> NoPair]

\* { ...a, ...b }: own properties of b win; spreading undefined adds nothing
Spread(a, b) ==
  LET aa == IF a = UndefObj THEN EmptyObj ELSE a
      bb == IF b = UndefObj THEN EmptyObj ELSE b
  IN  [k \in Keys |-> IF bb[k] # Absent THEN bb[k] ELSE aa[k]]

SpreadSys(a, b) == [k \in Keys |-> IF b[k] # NoPair THEN b[k] ELSE a[k]]

\* keyedConfig[themeKey][optionKey]: the option record, or NoOption
NoOption == [value |-> Undefined, media |-> NoMedia]
KeyedOption(themeKey, optionKey) ==
  LET opts == ThemeConfig[themeKey].options
      hit == {n \in 1..Len(opts) : opts[n].value = optionKey}
  IN  IF hit = {} THEN NoOption ELSE opts[CHOOSE n \in hit : TRUE]

getDefaultThemes_first ==
  [k \in Keys |-> IF k \notin Dims THEN Absent ELSE ThemeConfig[k].options[1].value]

\* getDefaultThemes, lines 85-95: defaultOption ?? the first option's value
getDefaultThemes ==
  [k \in Keys |->
     IF k \notin Dims THEN Absent
     ELSE IF ThemeConfig[k].defaultOption # Absent THEN ThemeConfig[k].defaultOption
     ELSE ThemeConfig[k].options[1].value]

\* constructor, lines 128-145.  systemOptions is initialState.systemOptions
\* itself when the caller passes one, so a pair written for the first media
\* option of a dimension is then seen by the test of line 138 and kept;
\* with no initialState.systemOptions every media option overwrites.
RECURSIVE SeedPair(_, _, _, _)
SeedPair(opts, n, acc, aliased) ==
  IF n > Len(opts) THEN acc
  ELSE SeedPair(opts, n + 1,
                IF opts[n].media # NoMedia /\ ~(aliased /\ acc # NoPair)
                  THEN <<opts[n].media[2], opts[n].media[3]>> ELSE acc,
                aliased)

ConstructSystemOptions(hasInitialSys, initialSys) ==
  [k \in Keys |->
     IF k \notin Dims THEN initialSys[k]
     ELSE IF initialSys[k] # NoPair THEN initialSys[k]
     ELSE SeedPair(ThemeConfig[k].options, 1, NoPair, hasInitialSys)]

\* ------------------------------------------------------------------------
\* Inputs
\* ------------------------------------------------------------------------
Obj1(k, v) == [EmptyObj EXCEPT ![k] = v]
Obj2(k1, v1, k2, v2) == [EmptyObj EXCEPT ![k1] = v1, ![k2] = v2]
Sys1(k, p) == [EmptySys EXCEPT ![k] = p]

\* listeners: "l1" only records what it is given; "l2" calls
\* setThemes({ct: "high"}) from inside the callback whenever it is handed a
\* selection with cs = "dark" and ct # "high"
Listeners == {"l1", "l2"}

\* ------------------------------------------------------------------------
\* Persisted payloads
\* ------------------------------------------------------------------------
\* What getItem returns or a watch event carries: null, a legacy bare map
\* (no version), or a versioned envelope whose themes / systemOptions
\* properties may be missing.
NullPayload == [kind |-> "null", themes |-> UndefObj, hasSys |-> FALSE, sys |-> EmptySys]
LegacyPayload(m) == [kind |-> "legacy", themes |-> m, hasSys |-> FALSE, sys |-> EmptySys]
V1Payload(t, sy) == [kind |-> "v1", themes |-> t, hasSys |-> TRUE, sys |-> sy]
\* a stored string that is not JSON
CorruptPayload == [kind |-> "corrupt", themes |-> UndefObj, hasSys |-> FALSE, sys |-> EmptySys]

\* getItem of the default backend, part_002 lines 109-111:
\* JSON.parse(stored || 'null'), which throws on a string that is not JSON
GetItem(stored) == [ok |-> stored.kind # "corrupt", val |-> stored]

\* JSON.stringify of the envelope handed to setItem (part_002 line 114):
\* a property whose value is undefined is left out
Serialize(w, env) ==
  [kind |-> "v1", themes |-> env.themes, hasSys |-> env.ref # NoRef,
   sys |-> IF env.ref = NoRef THEN EmptySys ELSE w.heap[env.ref]]

\* ------------------------------------------------------------------------
\* State
\* ------------------------------------------------------------------------
VARIABLES
  status,           \* per store: "none" (not constructed), "live", "destroyed"
  registry,         \* Registry.#registry: per key, the store registered or "none"
  currentThemes,    \* #currentThemes
  systemOptions,    \* #systemOptions: a reference into heap, NoRef = undefined
  heap,             \* the systemOptions objects, by reference
  listeners,        \* #listeners, a Set in insertion order
  mediaQueryCache,  \* #mediaQueryCache: per query, the (themeKey, option.value)
                    \* captured by the change listener registered when it was filled
  watching,         \* whether the callback handed to storage.watch is attached
  matches,          \* MediaQueryList.matches of every media query
  isClient,         \* the module constant isClient
  hasWatch,         \* whether the backend provides watch
  storage,          \* what the backend holds under each store's key
  pending,          \* suspended async operations: awaited setItem / getItem
  channel,          \* watch events queued for each store
  setItemLog,       \* every storage.setItem invocation, in order
  broadcastLog,     \* every storage.broadcast invocation, in order
  callCount,        \* number of setThemes calls entered so far
  last,             \* what the last step did (history variable)
  steps             \* number of steps the behaviour may still take

vars == <<status, registry, currentThemes, systemOptions, heap, listeners, mediaQueryCache,
          watching, matches, isClient, hasWatch, storage, pending, channel, setItemLog,
          broadcastLog, callCount, last, steps>>

\* The part of the state a synchronous call chain can change, with the
\* trace of that chain: the notification passes it ran, the listener
\* invocations, the setThemes calls (cur: the one now on the stack) and
\* whether an exception escaped.
World ==
  [ct |-> currentThemes, so |-> systemOptions, heap |-> heap,
   mq |-> mediaQueryCache, m |-> matches, pend |-> pending, log |-> setItemLog,
   n |-> callCount,
   passes |-> <<>>, notes |-> <<>>, calls |-> <<>>, cur |-> 0, thrown |-> FALSE,
   warned |-> FALSE]

SysValue(w, i) == IF w.so[i] = NoRef THEN EmptySys ELSE w.heap[w.so[i]]

\* ------------------------------------------------------------------------
\* Resolver
\* ------------------------------------------------------------------------
ResolveThemeOption_noGuard(w, i, themeKey, option) ==
  IF option = NoOption THEN [w |-> w, ok |-> FALSE, val |-> Undefined]
  ELSE IF option.media = NoMedia THEN [w |-> w, ok |-> TRUE, val |-> option.value]
  ELSE IF ~isClient THEN [w |-> w, ok |-> FALSE, val |-> Undefined]
  ELSE
    LET mediaQuery == option.media[1]
        w1 == IF w.mq[i][mediaQuery] = NoReg
                THEN [w EXCEPT !.mq[i][mediaQuery] = <<themeKey, option.value>>]
                ELSE w
        pair == SysValue(w1, i)[themeKey]
    IN  IF w1.so[i] = NoRef \/ pair = NoPair
          THEN [w |-> w1, ok |-> FALSE, val |-> Undefined]
          ELSE [w |-> w1, ok |-> TRUE,
                val |-> IF w1.m[mediaQuery] THEN pair[1] ELSE pair[2]]

\* #resolveThemeOption, lines 294-332
ResolveThemeOption(w, i, themeKey, option) ==
  IF option = NoOption THEN [w |-> w, ok |-> FALSE, val |-> Undefined]
  ELSE IF option.media = NoMedia THEN [w |-> w, ok |-> TRUE, val |-> option.value]
  ELSE IF ~isClient
    THEN [w |-> [w EXCEPT !.warned = TRUE], ok |-> TRUE, val |-> option.value]
  ELSE
    LET mediaQuery == option.media[1]
        w1 == IF w.mq[i][mediaQuery] = NoReg
                THEN [w EXCEPT !.mq[i][mediaQuery] = <<themeKey, option.value>>]
                ELSE w
        pair == SysValue(w1, i)[themeKey]
    IN  IF w1.so[i] = NoRef \/ pair = NoPair
          THEN [w |-> w1, ok |-> FALSE, val |-> Undefined]
          ELSE [w |-> w1, ok |-> TRUE,
                val |-> IF w1.m[mediaQuery] THEN pair[1] ELSE pair[2]]

\* #resolveThemes, lines 282-292: Object.entries(#currentThemes) in order
RECURSIVE ResolveEntries(_, _, _, _)
ResolveEntry(r, i, n, acc, themeKey) ==
  IF ~r.ok THEN [w |-> r.w, ok |-> FALSE, val |-> acc]
  ELSE ResolveEntries(r.w, i, n + 1, [acc EXCEPT ![themeKey] = r.val])

ResolveEntries(w, i, n, acc) ==
  IF n > Len(KeyOrder) THEN [w |-> w, ok |-> TRUE, val |-> acc]
  ELSE IF w.ct[i][KeyOrder[n]] = Absent THEN ResolveEntries(w, i, n + 1, acc)
  ELSE IF KeyOrder[n] \notin Dims THEN [w |-> w, ok |-> FALSE, val |-> acc]
  ELSE ResolveEntry(ResolveThemeOption(w, i, KeyOrder[n],
                                       KeyedOption(KeyOrder[n], w.ct[i][KeyOrder[n]])),
                    i, n, acc, KeyOrder[n])

ResolveThemes(w, i) ==
  IF w.ct[i] = UndefObj THEN [w |-> w, ok |-> FALSE, val |-> UndefObj]
  ELSE ResolveEntries(w, i, 1, EmptyObj)

GetStateToPersist_defaults(w, i) ==
  [version |-> 1, themes |-> getDefaultThemes, ref |-> w.so[i], sys |-> SysValue(w, i)]

\* getStateToPersist, lines 200-206: the envelope holds the #systemOptions
\* object itself; sys is its content when the envelope is built
GetStateToPersist(w, i) ==
  [version |-> 1, themes |-> w.ct[i], ref |-> w.so[i], sys |-> SysValue(w, i)]

\* ------------------------------------------------------------------------
\* Notification and setThemes
\* ------------------------------------------------------------------------
HighUpdate == [kind |-> "obj", obj |-> Obj1("ct", "high")]

\* setThemes argument, line 180: an object, or a function of #currentThemes
\* (the modelled function flips ct between "high" and "standard")
UpdatedThemes(upd, cur) ==
  IF upd.kind = "fn"
    THEN Obj1("ct", IF cur["ct"] = "high" THEN "standard" ELSE "high")
    ELSE upd.obj

\* the listeners of store i that were handed `themes` in this call chain
Received(w, i, themes) ==
  {l \in Listeners : \E k \in 1..Len(w.notes) :
      w.notes[k].store = i /\ w.notes[k].l = l /\ w.notes[k].themes = themes}

\* the payload most recently handed to listener l in this call chain
LastNote(w, i, l) ==
  LET ks == {k \in 1..Len(w.notes) : w.notes[k].store = i /\ w.notes[k].l = l}
  IN  IF ks = {} THEN UndefObj
      ELSE w.notes[CHOOSE k \in ks : \A j \in ks : j <= k].themes

UpToDate(w, i) ==
  {l \in Listeners : LastNote(w, i, l) = w.ct[i]}

NotifyPayload_stale(w, wStart, i, r) ==
  [themes |-> wStart.ct[i], resolved |-> ResolveThemes(wStart, i).val]

\* #notify, lines 336-339: the payload is built for each listener in turn,
\* from #currentThemes and a fresh #resolveThemes() (r)
NotifyPayload(w, wStart, i, r) ==
  [themes |-> w.ct[i], resolved |-> r.val]

Note(w, i, pass, l, payload, r) ==
  [store |-> i, pass |-> pass, l |-> l,
   themes |-> payload.themes, resolved |-> payload.resolved,
   nowThemes |-> w.ct[i], nowResolved |-> r.val]

RECURSIVE NotifyFrom(_, _, _, _, _, _)
RECURSIVE SetThemes(_, _, _)

\* what the subscribed callback does with the payload
ListenerBody(w, i, l, payload) ==
  IF l = "l2" /\ payload.themes["cs"] = "dark" /\ payload.themes["ct"] # "high"
    THEN SetThemes(w, i, HighUpdate)
    ELSE w

\* one listener of the pass: an exception of #resolveThemes ends the pass
NotifyOne(w, i, lis, n, pass, wStart, r, payload) ==
  IF ~r.ok THEN [r.w EXCEPT !.thrown = TRUE]
  ELSE NotifyFrom(ListenerBody([r.w EXCEPT !.notes =
                                   Append(@, Note(w, i, pass, lis[n], payload, r))],
                               i, lis[n], payload),
                  i, lis, n + 1, pass, wStart)

NotifyWith(w, i, lis, n, pass, wStart, r) ==
  NotifyOne(w, i, lis, n, pass, wStart, r, NotifyPayload(w, wStart, i, r))

\* #notify, lines 334-341
NotifyFrom(w, i, lis, n, pass, wStart) ==
  IF n > Len(lis) THEN [w EXCEPT !.passes[pass].done = TRUE]
  ELSE NotifyWith(w, i, lis, n, pass, wStart, ResolveThemes(w, i))

NotifyStart(w1, i) ==
  NotifyFrom(w1, i, listeners[i], 1, Len(w1.passes), w1)

Notify(w, i) ==
  NotifyStart([w EXCEPT !.passes = Append(@, [store |-> i, lis |-> listeners[i],
                                               done |-> FALSE])], i)

\* #setThemesAndNotify, lines 277-280
SetThemesAndNotify(w, i, themes) == Notify([w EXCEPT !.ct[i] = themes], i)

\* setThemes from line 184 on, after #setThemesAndNotify returned w1: the
\* envelope is built and handed to setItem.  setThemes is an async
\* function: an exception inside it rejects the promise it returns and
\* does not reach the caller's stack.
SetThemesPersist(w1, i, c, id, merged, stateToPersist) ==
  IF w1.thrown
    THEN [w1 EXCEPT !.thrown = FALSE, !.cur = w1.calls[c].parent,
                    !.calls[c].rejected = TRUE,
                    !.calls[c].sysAfter = SysValue(w1, i),
                    !.calls[c].nowThemes = w1.ct[i]]
    ELSE [w1 EXCEPT
            !.cur = w1.calls[c].parent,
            !.log = Append(@, [store |-> i, call |-> id, parent |-> w1.calls[c].parent,
                               update |-> w1.calls[c].update,
                               during |-> \E k \in 1..Len(w1.pend) :
                                            w1.pend[k].op = "getItem",
                               env |-> stateToPersist, nowThemes |-> w1.ct[i],
                               nowSys |-> SysValue(w1, i)]),
            !.pend = Append(@, [op |-> "setItem", store |-> i, call |-> id,
                                env |-> stateToPersist, got |-> NullPayload,
                                returned |-> TRUE]),
            !.calls[c].persisted = TRUE,
            !.calls[c].env = stateToPersist,
            !.calls[c].sysAfter = SysValue(w1, i),
            !.calls[c].nowThemes = w1.ct[i],
            !.calls[c].gotMerged = Received(w1, i, merged),
            !.calls[c].upToDate = UpToDate(w1, i)]

SetThemesNotified_updateOnly(w1, i, c, id, merged) ==
  SetThemesPersist(w1, i, c, id, merged,
                   [GetStateToPersist(w1, i) EXCEPT !.themes = w1.calls[c].update])

\* lines 184-186: the envelope is getStateToPersist() after the pass
SetThemesNotified(w1, i, c, id, merged) ==
  SetThemesPersist(w1, i, c, id, merged, GetStateToPersist(w1, i))

\* the history record of a setThemes call that has just been entered
Entered(w, i, before, updatedThemes, merged) ==
  [w EXCEPT !.n = w.n + 1, !.cur = w.n + 1,
            !.calls = Append(@,
              [store |-> i, id |-> w.n + 1, parent |-> w.cur, before |-> before,
               update |-> updatedThemes, merged |-> merged,
               sysBefore |-> SysValue(w, i), sysAfter |-> SysValue(w, i),
               rejected |-> FALSE, persisted |-> FALSE,
               env |-> GetStateToPersist(w, i), nowThemes |-> before,
               lis |-> listeners[i], gotMerged |-> {}, upToDate |-> {}])]

\* a setThemes that hands the envelope to setItem before it notifies
SetThemesMerged_persistFirst(w, i, before, updatedThemes, merged) ==
  Notify(SetThemesNotified(
           [Entered(w, i, before, updatedThemes, merged) EXCEPT !.ct[i] = merged],
           i, Len(w.calls) + 1, w.n + 1, merged), i)

\* lines 182-186: #setThemesAndNotify, then getStateToPersist and setItem
SetThemesMerged(w, i, before, updatedThemes, merged) ==
  SetThemesNotified(
    SetThemesAndNotify(Entered(w, i, before, updatedThemes, merged), i, merged),
    i, Len(w.calls) + 1, w.n + 1, merged)

MergeThemes_replace(before, updatedThemes) == Spread(EmptyObj, updatedThemes)

\* line 182: { ...this.#currentThemes, ...updatedThemes }
MergeThemes(before, updatedThemes) == Spread(before, updatedThemes)

SetThemesUpdated(w, i, updatedThemes) ==
  SetThemesMerged(w, i, w.ct[i], updatedThemes, MergeThemes(w.ct[i], updatedThemes))

\* setThemes up to its await, lines 174-186
SetThemes(w, i, upd) == SetThemesUpdated(w, i, UpdatedThemes(upd, w.ct[i]))

\* ------------------------------------------------------------------------
\* The other operations, as functions of the world
\* ------------------------------------------------------------------------
Alloc(w, i, sysObj) ==
  [w EXCEPT !.heap = Append(@, sysObj), !.so[i] = Len(w.heap) + 1]

\* line 197: the promise of setThemes call `id` is not returned, so the
\* pending write of that call belongs to a promise nobody holds
Dropped(w, id) ==
  [w EXCEPT !.pend = [k \in 1..Len(w.pend) |->
                        IF w.pend[k].op = "setItem" /\ w.pend[k].call = id
                          THEN [w.pend[k] EXCEPT !.returned = FALSE]
                          ELSE w.pend[k]]]

UpdateSystemOption_replaceAll(w, i, themeKey, pair) ==
  IF w.so[i] = NoRef THEN [w EXCEPT !.thrown = TRUE]
  ELSE Dropped(SetThemes([w EXCEPT !.heap[w.so[i]] = Sys1(themeKey, pair)], i,
                         [kind |-> "obj", obj |-> w.ct[i]]),
               w.n + 1)

\* updateSystemOption, lines 191-198: writes into the #systemOptions object
\* in place (a TypeError when it is undefined), then calls setThemes and
\* drops the promise
UpdateSystemOption(w, i, themeKey, pair) ==
  IF w.so[i] = NoRef THEN [w EXCEPT !.thrown = TRUE]
  ELSE Dropped(SetThemes([w EXCEPT !.heap[w.so[i]][themeKey] = pair], i,
                         [kind |-> "obj", obj |-> w.ct[i]]),
               w.n + 1)

RestoreApply_noLegacy(w, i, persistedState) ==
  IF persistedState.kind = "null"
    THEN SetThemesAndNotify(w, i, Spread(getDefaultThemes, EmptyObj))
    ELSE SetThemesAndNotify(
           Alloc(w, i, SpreadSys(SysValue(w, i), persistedState.sys)),
           i,
           Spread(getDefaultThemes,
                  IF persistedState.kind = "legacy" THEN UndefObj
                  ELSE persistedState.themes))

RestoreApply_nullKeeps(w, i, persistedState) ==
  IF persistedState.kind = "null"
    THEN w
    ELSE SetThemesAndNotify(
           Alloc(w, i, SpreadSys(SysValue(w, i),
                                 IF persistedState.kind = "legacy" THEN SysValue(w, i)
                                 ELSE persistedState.sys)),
           i, Spread(getDefaultThemes, persistedState.themes))

RestoreApply_overCurrent(w, i, persistedState) ==
  IF persistedState.kind = "null"
    THEN SetThemesAndNotify(w, i, Spread(getDefaultThemes, EmptyObj))
    ELSE SetThemesAndNotify(
           Alloc(w, i, SpreadSys(SysValue(w, i),
                                 IF persistedState.kind = "legacy" THEN SysValue(w, i)
                                 ELSE persistedState.sys)),
           i, Spread(w.ct[i], persistedState.themes))

\* restore after its await, lines 211-233
RestoreApply(w, i, persistedState) ==
  IF persistedState.kind = "null"
    THEN SetThemesAndNotify(w, i, Spread(getDefaultThemes, EmptyObj))
    ELSE
      LET persistedSys ==
            IF persistedState.kind = "legacy" THEN SysValue(w, i)
            ELSE persistedState.sys
          w1 == Alloc(w, i, SpreadSys(SysValue(w, i), persistedSys))
      IN  SetThemesAndNotify(w1, i, Spread(getDefaultThemes, persistedState.themes))

\* the key of the store, line 122: the key it was created with through the
\* registry, else the default
StoreKey(i) == IF registry[OtherKey] = i THEN OtherKey ELSE PACKAGE_NAME

\* lines 266-268: both fields are taken from the event's value as they are
WatchApply(w, i, persistedState) ==
  IF persistedState.kind = "null" THEN [w EXCEPT !.thrown = TRUE]
  ELSE SetThemesAndNotify(
         IF persistedState.kind = "v1" /\ persistedState.hasSys
           THEN Alloc(w, i, persistedState.sys)
           ELSE [w EXCEPT !.so[i] = NoRef],
         i,
         IF persistedState.kind = "v1" THEN persistedState.themes ELSE UndefObj)

WatchCallback_anyKey(w, i, key, persistedState) == WatchApply(w, i, persistedState)

WatchCallback_echo(w, i, key, persistedState) ==
  IF key # StoreKey(i) THEN w
  ELSE SetThemes(w, i, [kind |-> "obj", obj |-> persistedState.themes])

\* the callback sync hands to storage.watch, lines 263-269
WatchCallback(w, i, key, persistedState) ==
  IF key # StoreKey(i) THEN w ELSE WatchApply(w, i, persistedState)

MediaChangeListener_always(w, i, mediaQuery) ==
  SetThemesAndNotify(w, i, Spread(w.ct[i], EmptyObj))

\* the change listener of a media query, lines 320-324
MediaChangeListener(w, i, mediaQuery) ==
  LET themeKey == w.mq[i][mediaQuery][1]
      optionValue == w.mq[i][mediaQuery][2]
  IN  IF w.ct[i] = UndefObj THEN [w EXCEPT !.thrown = TRUE]
      ELSE IF w.ct[i][themeKey] = optionValue
        THEN SetThemesAndNotify(w, i, Spread(w.ct[i], EmptyObj))
        ELSE w

\* subscribe with immediate, lines 240-245
SubscribeResolved(w, i, l, r, payload) ==
  IF ~r.ok THEN [r.w EXCEPT !.thrown = TRUE]
  ELSE ListenerBody([r.w EXCEPT !.notes = Append(@, Note(w, i, 0, l, payload, r))],
                    i, l, payload)

SubscribeWith(w, i, l, r) ==
  SubscribeResolved(w, i, l, r, [themes |-> w.ct[i], resolved |-> r.val])

SubscribeImmediate(w, i, l) == SubscribeWith(w, i, l, ResolveThemes(w, i))

\* ------------------------------------------------------------------------
\* Inputs of the operations
\* ------------------------------------------------------------------------
Updates ==
  { [kind |-> "obj", obj |-> Obj1("cs", "dark")],
    [kind |-> "obj", obj |-> Obj1("cs", "system")],
    [kind |-> "obj", obj |-> Obj1("ct", "auto")],
    [kind |-> "obj", obj |-> Obj2("cs", "dark", "ct", "auto")],
    [kind |-> "obj", obj |-> Obj1("zz", "on")],
    [kind |-> "fn", obj |-> EmptyObj] }

SystemUpdates == { <<"cs", <<"light", "dark">> >> }

Payloads ==
  { NullPayload,
    LegacyPayload(Obj1("cs", "dark")),
    V1Payload(Obj2("cs", "dark", "ct", "high"), Sys1("cs", <<"light", "dark">>)),
    V1Payload(Obj1("ct", "auto"), EmptySys) }

StoredAtStart ==
  { NullPayload, CorruptPayload, LegacyPayload(Obj1("cs", "dark")),
    V1Payload(Obj1("ct", "high"), Sys1("cs", <<"light", "dark">>)),
    V1Payload(Obj2("cs", "dark", "ct", "high"), Sys1("cs", <<"light", "dark">>)) }

WatchEvents ==
  {<<PACKAGE_NAME, p>> : p \in Payloads}
    \cup {<<OtherKey, V1Payload(Obj2("cs", "dark", "ct", "high"), EmptySys)>>}

\* ------------------------------------------------------------------------
\* Steps
\* ------------------------------------------------------------------------
OkVal(r) == [ok |-> r.ok, val |-> r.val]

Pre ==
  [i \in Stores |->
  [themes |-> currentThemes[i], so |-> systemOptions[i], sys |-> SysValue(World, i),
   resolved |-> OkVal(ResolveThemes(World, i)),
   lis |-> listeners[i], mq |-> mediaQueryCache[i], matches |-> matches,
   logLen |-> Len(setItemLog), bcLen |-> Len(broadcastLog),
   watching |-> watching[i], storage |-> storage[i], status |-> status[i]]]

NoArg == [key |-> Absent, payload |-> NullPayload, q |-> Absent, k |-> 0,
          returned |-> TRUE, found |-> "none", reg |-> registry, pair |-> NoPair,
          l |-> Absent, result |-> Absent]

Commit(op, i, w, arg) ==
  /\ currentThemes' = w.ct
  /\ systemOptions' = w.so
  /\ heap' = w.heap
  /\ mediaQueryCache' = w.mq
  /\ matches' = w.m
  /\ pending' = w.pend
  /\ setItemLog' = w.log
  /\ callCount' = w.n
  /\ last' = [op |-> op, store |-> i, arg |-> arg, pre |-> Pre,
              passes |-> w.passes, notes |-> w.notes, calls |-> w.calls,
              thrown |-> w.thrown, warned |-> w.warned]

Live(i) == status[i] = "live"
\* the application holds a reference to store i: its methods can be called,
\* destroyed or not
Has(i) == status[i] # "none"
\* the step budget is not used up
CanStart == steps > 0

\* store.setThemes(upd)
DoSetThemes(i, upd) ==
  /\ Has(i) /\ CanStart
  /\ Commit("setThemes", i, SetThemes(World, i, upd), NoArg)
  /\ steps' = steps - 1
  /\ UNCHANGED <<status, registry, listeners, watching, isClient, hasWatch, storage, channel, broadcastLog>>

\* store.updateSystemOption(themeKey, pair)
DoUpdateSystemOption(i, themeKey, pair) ==
  /\ Has(i) /\ CanStart
  /\ Commit("updateSystemOption", i, UpdateSystemOption(World, i, themeKey, pair),
            [NoArg EXCEPT !.key = themeKey, !.pair = pair])
  /\ steps' = steps - 1
  /\ UNCHANGED <<status, registry, listeners, watching, isClient, hasWatch, storage, channel, broadcastLog>>

Thrown(r) == [r.w EXCEPT !.thrown = ~r.ok]

\* store.getResolvedThemes()
DoGetResolvedThemes(i) ==
  /\ Has(i) /\ CanStart
  /\ Commit("getResolvedThemes", i, Thrown(ResolveThemes(World, i)), NoArg)
  /\ steps' = steps - 1
  /\ UNCHANGED <<status, registry, listeners, watching, isClient, hasWatch, storage, channel, broadcastLog>>

\* line 247, reached unless the immediate call threw
Subscribed(i, l, immediate, w) ==
  /\ Commit(IF immediate THEN "subscribeImmediate" ELSE "subscribe", i, w,
            [NoArg EXCEPT !.l = l])
  /\ listeners' = IF w.thrown THEN listeners
                  ELSE [listeners EXCEPT ![i] = Append(@, l)]

\* store.subscribe(l, {immediate})
DoSubscribe(i, l, immediate) ==
  /\ Has(i) /\ CanStart
  /\ \A n \in 1..Len(listeners[i]) : listeners[i][n] # l
  /\ Subscribed(i, l, immediate,
                IF immediate THEN SubscribeImmediate(World, i, l) ELSE World)
  /\ steps' = steps - 1
  /\ UNCHANGED <<status, registry, watching, isClient, hasWatch, storage, channel, broadcastLog>>

Unsubscribe_keeps(lis, l) == lis

\* line 250: this.#listeners.delete(callback)
Unsubscribe(lis, l) == SelectSeq(lis, LAMBDA x : x # l)

\* the function subscribe returned, lines 249-251
DoUnsubscribe(i, l) ==
  /\ Has(i) /\ CanStart
  /\ \E n \in 1..Len(listeners[i]) : listeners[i][n] = l
  /\ listeners' = [listeners EXCEPT ![i] = Unsubscribe(@, l)]
  /\ Commit("unsubscribe", i, World, [NoArg EXCEPT !.l = l])
  /\ steps' = steps - 1
  /\ UNCHANGED <<status, registry, watching, isClient, hasWatch, storage, channel, broadcastLog>>

\* addEventListener with { signal }: a listener given a signal that is
\* already aborted is not added (part_002 lines 121-135, 169-181)
Attached(st, i) == st[i] = "live"

Sync_unguarded(st, i, watch) ==
  [attached |-> watch /\ Attached(st, i), warned |-> FALSE, thrown |-> ~watch,
   result |-> IF watch THEN "unsubscribe" ELSE "undefined"]

\* sync, lines 254-270: without storage.watch a warning and undefined,
\* else the callback is handed to watch and watch's result returned
Sync(st, i, watch) ==
  [attached |-> watch /\ Attached(st, i), warned |-> ~watch, thrown |-> FALSE,
   result |-> IF watch THEN "unsubscribe" ELSE "undefined"]

Synchronized(i, r) ==
  /\ watching' = [watching EXCEPT ![i] = r.attached]
  /\ Commit("sync", i, [World EXCEPT !.warned = r.warned, !.thrown = r.thrown],
            [NoArg EXCEPT !.result = r.result])

\* store.sync()
DoSync(i) ==
  /\ Has(i) /\ CanStart
  /\ ~watching[i]
  /\ Synchronized(i, Sync(status, i, hasWatch))
  /\ steps' = steps - 1
  /\ UNCHANGED <<status, registry, listeners, isClient, hasWatch, storage, channel, broadcastLog>>

Without(seq, k) == [n \in 1..(Len(seq) - 1) |-> IF n < k THEN seq[n] ELSE seq[n + 1]]

\* an await whose promise rejects, lines 186 and 209: the exception leaves
\* the async function as the rejection of the promise it returned; nothing
\* else runs
Rejected_rollback(w, i) == [w EXCEPT !.ct[i] = getDefaultThemes, !.thrown = TRUE]

Rejected(w, i) == [w EXCEPT !.thrown = TRUE]

\* store.restore() up to its await, line 209: getItem is called and what it
\* will return is what the backend holds now
DoRestore(i) ==
  /\ Has(i) /\ CanStart
  /\ Commit("restore", i,
            IF GetItem(storage[i]).ok
              THEN [World EXCEPT
                      !.pend = Append(@, [op |-> "getItem", store |-> i, call |-> 0,
                                          env |-> GetStateToPersist(World, i),
                                          got |-> GetItem(storage[i]).val,
                                          returned |-> TRUE])]
              ELSE Rejected(World, i),
            NoArg)
  /\ steps' = steps - 1
  /\ UNCHANGED <<status, registry, listeners, watching, isClient, hasWatch, storage, channel, broadcastLog>>

\* the awaited getItem resolves and restore runs on, lines 211-233
RestoreDone(k) ==
  /\ CanStart
  /\ k \in 1..Len(pending) /\ pending[k].op = "getItem"
  /\ LET p == pending[k]
         w == [World EXCEPT !.pend = Without(@, k)]
     IN  Commit("restoreDone", p.store, RestoreApply(w, p.store, p.got),
                [NoArg EXCEPT !.payload = p.got])
  /\ steps' = steps - 1
  /\ UNCHANGED <<status, registry, listeners, watching, isClient, hasWatch, storage, channel, broadcastLog>>

\* the awaited getItem rejects: restore rejects, line 209
RestoreFail(k) ==
  /\ CanStart
  /\ k \in 1..Len(pending) /\ pending[k].op = "getItem"
  /\ LET p == pending[k]
     IN  Commit("restoreRejected", p.store,
                Rejected([World EXCEPT !.pend = Without(@, k)], p.store),
                [NoArg EXCEPT !.payload = p.got])
  /\ steps' = steps - 1
  /\ UNCHANGED <<status, registry, listeners, watching, isClient, hasWatch, storage, channel, broadcastLog>>

\* broadcast of the memory adapter, part_002 lines 165-167: postMessage
\* clones the envelope as it is now and queues it for every other channel
\* object of that name that has a message listener (watch, lines 169-183)
Posted(from, env) ==
  [i \in Stores |->
     IF i # from /\ status[i] = "live" /\ watching[i]
       THEN Append(channel[i],
                   [key |-> StoreKey(from),
                    value |-> [kind |-> "v1", themes |-> env.themes,
                               hasSys |-> env.ref # NoRef,
                               sys |-> IF env.ref = NoRef THEN EmptySys
                                       ELSE heap[env.ref]]])
       ELSE channel[i]]

\* the awaited setItem resolves: the backend holds the envelope, and
\* setThemes runs on to broadcast, line 188
SetItemDone(k) ==
  /\ CanStart
  /\ k \in 1..Len(pending) /\ pending[k].op = "setItem"
  /\ LET p == pending[k]
     IN  /\ Commit("setItemDone", p.store, [World EXCEPT !.pend = Without(@, k)],
                   [NoArg EXCEPT !.k = p.call])
         /\ storage' = [storage EXCEPT ![p.store] = V1Payload(p.env.themes, p.env.sys)]
         /\ broadcastLog' = Append(broadcastLog,
                                   [store |-> p.store, call |-> p.call, env |-> p.env,
                                    sysNow |-> IF p.env.ref = NoRef THEN EmptySys
                                               ELSE heap[p.env.ref]])
         /\ channel' = Posted(p.store, p.env)
  /\ steps' = steps - 1
  /\ UNCHANGED <<status, registry, listeners, watching, isClient, hasWatch>>

\* a queued message event reaches the watch callback of store i
Deliver(i) ==
  /\ Live(i) /\ CanStart /\ watching[i]
  /\ channel[i] # <<>>
  /\ Commit("watch", i,
            WatchCallback(World, i, Head(channel[i]).key, Head(channel[i]).value),
            [NoArg EXCEPT !.key = Head(channel[i]).key,
                          !.payload = Head(channel[i]).value])
  /\ channel' = [channel EXCEPT ![i] = Tail(@)]
  /\ steps' = steps - 1
  /\ UNCHANGED <<status, registry, listeners, watching, isClient, hasWatch, storage, broadcastLog>>

\* the awaited setItem rejects: setThemes rejects, line 186
SetItemFail(k) ==
  /\ CanStart
  /\ k \in 1..Len(pending) /\ pending[k].op = "setItem"
  /\ LET p == pending[k]
     IN  Commit("setItemRejected", p.store,
                Rejected([World EXCEPT !.pend = Without(@, k)], p.store),
                [NoArg EXCEPT !.k = p.call, !.returned = p.returned])
  /\ steps' = steps - 1
  /\ UNCHANGED <<status, registry, listeners, watching, isClient, hasWatch, storage, channel, broadcastLog>>

\* another context changes the backend and the watch callback of store i is
\* called with (key, value), part_002 lines 126-129
StorageEvent(i, key, payload) ==
  /\ Live(i) /\ CanStart /\ watching[i]
  /\ Commit("watch", i, WatchCallback(World, i, key, payload),
            [NoArg EXCEPT !.key = key, !.payload = payload])
  /\ storage' = IF key = StoreKey(i) THEN [storage EXCEPT ![i] = payload] ELSE storage
  /\ steps' = steps - 1
  /\ UNCHANGED <<status, registry, listeners, watching, isClient, hasWatch, channel, broadcastLog>>

\* the media query flips and its change event is dispatched to the
\* listener each live store registered for it, lines 318-326
RECURSIVE DispatchChange(_, _, _)
DispatchChange(w, todo, mediaQuery) ==
  IF todo = <<>> THEN w
  ELSE
    LET i == Head(todo)
        w1 == IF status[i] = "live" /\ w.mq[i][mediaQuery] # NoReg
                THEN [MediaChangeListener(w, i, mediaQuery) EXCEPT !.thrown = FALSE]
                ELSE w
    IN  DispatchChange(w1, Tail(todo), mediaQuery)

MediaFlip(mediaQuery) ==
  /\ CanStart
  /\ Commit("flip", "A",
            DispatchChange([World EXCEPT !.m[mediaQuery] = ~@], <<"A", "B">>, mediaQuery),
            [NoArg EXCEPT !.q = mediaQuery])
  /\ steps' = steps - 1
  /\ UNCHANGED <<status, registry, listeners, watching, isClient, hasWatch, storage, channel, broadcastLog>>

\* ------------------------------------------------------------------------
\* One store, created without initialState over a backend that may already
\* hold a payload
\* ------------------------------------------------------------------------
NoLast ==
  [op |-> "init", store |-> "A", arg |-> NoArg, pre |-> <<>>, passes |-> <<>>,
   notes |-> <<>>, calls |-> <<>>, thrown |-> FALSE, warned |-> FALSE]

Init ==
  /\ status = [i \in Stores |-> IF i = "A" THEN "live" ELSE "none"]
  /\ registry = [k \in RegKeys |-> "none"]
  /\ currentThemes = [i \in Stores |-> IF i = "A" THEN getDefaultThemes ELSE UndefObj]
  /\ heap = <<ConstructSystemOptions(FALSE, EmptySys)>>
  /\ systemOptions = [i \in Stores |-> IF i = "A" THEN 1 ELSE NoRef]
  /\ listeners = [i \in Stores |-> <<>>]
  /\ mediaQueryCache = [i \in Stores |-> [q \in Queries |-> NoReg]]
  /\ watching = [i \in Stores |-> FALSE]
  /\ matches \in {[q \in Queries |-> q = "q1" /\ b] : b \in BOOLEAN}
  /\ isClient = TRUE
  /\ hasWatch = TRUE
  /\ storage \in {[i \in Stores |-> IF i = "A" THEN p ELSE NullPayload] : p \in StoredAtStart}
  /\ pending = <<>>
  /\ channel = [i \in Stores |-> <<>>]
  /\ setItemLog = <<>>
  /\ broadcastLog = <<>>
  /\ callCount = 0
  /\ last = NoLast
  /\ steps = MaxSteps

Next ==
  \/ \E upd \in Updates : DoSetThemes("A", upd)
  \/ \E su \in SystemUpdates : DoUpdateSystemOption("A", su[1], su[2])
  \/ DoGetResolvedThemes("A")
  \/ \E l \in Listeners, immediate \in BOOLEAN : DoSubscribe("A", l, immediate)
  \/ \E l \in Listeners : DoUnsubscribe("A", l)
  \/ DoSync("A")
  \/ DoRestore("A")
  \/ \E k \in 1..MaxSteps : RestoreDone(k)
  \/ \E k \in 1..MaxSteps : RestoreFail(k)
  \/ \E k \in 1..MaxSteps : SetItemDone(k)
  \/ \E k \in 1..MaxSteps : SetItemFail(k)
  \/ \E e \in WatchEvents : StorageEvent("A", e[1], e[2])
  \/ \E q \in Queries : MediaFlip(q)

Spec == Init /\ [][Next]_vars

\* ------------------------------------------------------------------------
\* Two stores with the same key in two contexts, each over its own memory
\* adapter, joined by the broadcast channel of that name
\* ------------------------------------------------------------------------
InitSync ==
  /\ status = [i \in Stores |-> "live"]
  /\ registry = [k \in RegKeys |-> "none"]
  /\ currentThemes = [i \in Stores |-> getDefaultThemes]
  /\ heap = <<ConstructSystemOptions(FALSE, EmptySys),
              ConstructSystemOptions(FALSE, EmptySys)>>
  /\ systemOptions = [i \in Stores |-> IF i = "A" THEN 1 ELSE 2]
  /\ listeners = [i \in Stores |-> <<>>]
  /\ mediaQueryCache = [i \in Stores |-> [q \in Queries |-> NoReg]]
  /\ watching = [i \in Stores |-> FALSE]
  /\ matches \in {[q \in Queries |-> q = "q1" /\ b] : b \in BOOLEAN}
  /\ isClient = TRUE
  /\ hasWatch = TRUE
  /\ storage = [i \in Stores |-> NullPayload]
  /\ pending = <<>>
  /\ channel = [i \in Stores |-> <<>>]
  /\ setItemLog = <<>>
  /\ broadcastLog = <<>>
  /\ callCount = 0
  /\ last = NoLast
  /\ steps = MaxSyncSteps

\* what each context's application sets
SyncUpdates ==
  [A |-> [kind |-> "obj", obj |-> Obj1("cs", "dark")],
   B |-> [kind |-> "obj", obj |-> Obj1("ct", "high")]]

Synced == \A i \in Stores : watching[i]

NextSync ==
  \/ \E i \in Stores : DoSync(i)
  \/ \E i \in Stores : Synced /\ DoSetThemes(i, SyncUpdates[i])
  \/ \E k \in 1..MaxSyncSteps : SetItemDone(k)
  \/ \E i \in Stores : Deliver(i)

SpecSync == InitSync /\ [][NextSync]_vars

\* ------------------------------------------------------------------------
\* The registry: createThemeStore, getThemeStore, destroyThemeStore
\* ------------------------------------------------------------------------
\* what the registry operations read and write
RegState ==
  [status |-> status, listeners |-> listeners, watching |-> watching,
   registry |-> registry, thrown |-> FALSE, found |-> "none"]

DestroyStore_noAbort(r, i) == [r EXCEPT !.listeners[i] = <<>>]

\* _destroy, lines 272-275: the listener set is cleared and the abort
\* controller aborted, which removes the media change listeners and the
\* watch listener registered with its signal
DestroyStore(r, i) ==
  [r EXCEPT !.listeners[i] = <<>>, !.status[i] = "destroyed", !.watching[i] = FALSE]

RegistryDestroy_keepEntry(r, storeKey) ==
  IF r.registry[storeKey] = "none" THEN [r EXCEPT !.thrown = TRUE]
  ELSE DestroyStore(r, r.registry[storeKey])

\* Registry.destroy, lines 375-386
RegistryDestroy(r, storeKey) ==
  IF r.registry[storeKey] = "none" THEN [r EXCEPT !.thrown = TRUE]
  ELSE [DestroyStore(r, r.registry[storeKey]) EXCEPT !.registry[storeKey] = "none"]

\* Registry.get, lines 363-373
RegistryGet(r, storeKey) ==
  IF r.registry[storeKey] = "none" THEN [r EXCEPT !.thrown = TRUE]
  ELSE [r EXCEPT !.found = r.registry[storeKey]]

RegistryCreate_keepOld(r, storeKey, i) ==
  [r EXCEPT !.status[i] = "live", !.registry[storeKey] = i, !.found = i]

\* Registry.create, lines 347-361: i is the instance new ThemeStore makes
RegistryCreate(r, storeKey, i) ==
  [(IF r.registry[storeKey] # "none" THEN RegistryDestroy(r, storeKey) ELSE r)
     EXCEPT !.status[i] = "live", !.registry[storeKey] = i, !.found = i]

Install(r) ==
  /\ status' = r.status
  /\ listeners' = r.listeners
  /\ watching' = r.watching
  /\ registry' = r.registry

\* the fields the constructor sets, lines 121-164, without initialState
Constructed(w, i) ==
  [Alloc(w, i, ConstructSystemOptions(FALSE, EmptySys)) EXCEPT !.ct[i] = getDefaultThemes]

Registered(r, op, i, w, storeKey) ==
  /\ Install(r)
  /\ Commit(op, i, [w EXCEPT !.thrown = r.thrown],
            [NoArg EXCEPT !.key = storeKey, !.found = r.found])

\* createThemeStore({key: storeKey, config})
DoCreate(storeKey, i) ==
  /\ CanStart
  /\ status[i] = "none" /\ (i = "A" \/ status["A"] # "none")
  /\ Registered(RegistryCreate(RegState, storeKey, i), "create", i,
                Constructed(World, i), storeKey)
  /\ steps' = steps - 1
  /\ UNCHANGED <<isClient, hasWatch, storage, channel, broadcastLog>>

\* getThemeStore(storeKey)
DoGet(storeKey) ==
  /\ CanStart
  /\ Registered(RegistryGet(RegState, storeKey), "get", "A", World, storeKey)
  /\ steps' = steps - 1
  /\ UNCHANGED <<isClient, hasWatch, storage, channel, broadcastLog>>

\* destroyThemeStore(storeKey)
DoDestroy(storeKey) ==
  /\ CanStart
  /\ Registered(RegistryDestroy(RegState, storeKey), "destroy", "A", World, storeKey)
  /\ steps' = steps - 1
  /\ UNCHANGED <<isClient, hasWatch, storage, channel, broadcastLog>>

\* what the application does with the stores it got from the registry
RegistryUpdate == [kind |-> "obj", obj |-> Obj1("cs", "dark")]
RegistryEvent == V1Payload(Obj2("cs", "light", "ct", "high"), EmptySys)

InitRegistry ==
  /\ status = [i \in Stores |-> "none"]
  /\ registry = [k \in RegKeys |-> "none"]
  /\ currentThemes = [i \in Stores |-> UndefObj]
  /\ heap = <<>>
  /\ systemOptions = [i \in Stores |-> NoRef]
  /\ listeners = [i \in Stores |-> <<>>]
  /\ mediaQueryCache = [i \in Stores |-> [q \in Queries |-> NoReg]]
  /\ watching = [i \in Stores |-> FALSE]
  /\ matches = [q \in Queries |-> FALSE]
  /\ isClient = TRUE
  /\ hasWatch = TRUE
  /\ storage = [i \in Stores |-> NullPayload]
  /\ pending = <<>>
  /\ channel = [i \in Stores |-> <<>>]
  /\ setItemLog = <<>>
  /\ broadcastLog = <<>>
  /\ callCount = 0
  /\ last = NoLast
  /\ steps = MaxRegistrySteps

NextRegistry ==
  \/ \E i \in Stores : DoCreate(PACKAGE_NAME, i)
  \/ \E k \in RegKeys : DoGet(k)
  \/ \E k \in RegKeys : DoDestroy(k)
  \/ \E i \in Stores : DoSubscribe(i, "l1", TRUE)
  \/ \E i \in Stores : DoSetThemes(i, RegistryUpdate)
  \/ \E i \in Stores : DoUpdateSystemOption(i, "cs", <<"light", "dark">>)
  \/ \E i \in Stores : DoSync(i)
  \/ \E i \in Stores : DoRestore(i)
  \/ \E k \in 1..MaxRegistrySteps : RestoreDone(k)
  \/ \E k \in 1..MaxRegistrySteps : SetItemDone(k)
  \/ \E i \in Stores : StorageEvent(i, PACKAGE_NAME, RegistryEvent)
  \/ MediaFlip("q1")

SpecRegistry == InitRegistry /\ [][NextRegistry]_vars

\* ------------------------------------------------------------------------
\* A second store constructed from the first one's getStateToPersist()
\* ------------------------------------------------------------------------
\* the constructor with an initialState, lines 121-164: systemOptions is
\* the object initialState.systemOptions itself when there is one (pairs it
\* lacks are written into it), else a fresh seeded object; the selection is
\* { ...defaults, ...initialState.themes }
ConstructWith(w, i, initialState) ==
  [(IF initialState.ref = NoRef
      THEN Alloc(w, i, ConstructSystemOptions(FALSE, EmptySys))
      ELSE [w EXCEPT !.heap[initialState.ref] = ConstructSystemOptions(TRUE, @),
                     !.so[i] = initialState.ref])
     EXCEPT !.ct[i] = Spread(getDefaultThemes, initialState.themes)]

\* new ThemeStore({config, initialState: from.getStateToPersist()})
DoClone(from, i) ==
  /\ Has(from) /\ CanStart
  /\ status[i] = "none"
  /\ status' = [status EXCEPT ![i] = "live"]
  /\ Commit("clone", i, ConstructWith(World, i, GetStateToPersist(World, from)), NoArg)
  /\ steps' = steps - 1
  /\ UNCHANGED <<registry, listeners, watching, isClient, hasWatch, storage, channel, broadcastLog>>

InitClone ==
  /\ status = [i \in Stores |-> IF i = "A" THEN "live" ELSE "none"]
  /\ registry = [k \in RegKeys |-> "none"]
  /\ currentThemes = [i \in Stores |-> IF i = "A" THEN getDefaultThemes ELSE UndefObj]
  /\ heap = <<ConstructSystemOptions(FALSE, EmptySys)>>
  /\ systemOptions = [i \in Stores |-> IF i = "A" THEN 1 ELSE NoRef]
  /\ listeners = [i \in Stores |-> <<>>]
  /\ mediaQueryCache = [i \in Stores |-> [q \in Queries |-> NoReg]]
  /\ watching = [i \in Stores |-> FALSE]
  /\ matches \in {[q \in Queries |-> q = "q1" /\ b] : b \in BOOLEAN}
  /\ isClient = TRUE
  /\ hasWatch = TRUE
  /\ storage = [i \in Stores |-> NullPayload]
  /\ pending = <<>>
  /\ channel = [i \in Stores |-> <<>>]
  /\ setItemLog = <<>>
  /\ broadcastLog = <<>>
  /\ callCount = 0
  /\ last = NoLast
  /\ steps = MaxCloneSteps

NextClone ==
  \/ \E upd \in Updates : DoSetThemes("A", upd)
  \/ \E su \in SystemUpdates : DoUpdateSystemOption("A", su[1], su[2])
  \/ DoSync("A")
  \/ \E e \in WatchEvents : StorageEvent("A", e[1], e[2])
  \/ \E q \in Queries : MediaFlip(q)
  \/ DoClone("A", "B")
  \/ \E i \in Stores : DoGetResolvedThemes(i)

SpecClone == InitClone /\ [][NextClone]_vars

\* ------------------------------------------------------------------------
\* One store in a context that is no browser client (isClient false), over
\* a backend that provides getItem and setItem only
\* ------------------------------------------------------------------------
InitBare ==
  /\ status = [i \in Stores |-> IF i = "A" THEN "live" ELSE "none"]
  /\ registry = [k \in RegKeys |-> "none"]
  /\ currentThemes = [i \in Stores |-> IF i = "A" THEN getDefaultThemes ELSE UndefObj]
  /\ heap = <<ConstructSystemOptions(FALSE, EmptySys)>>
  /\ systemOptions = [i \in Stores |-> IF i = "A" THEN 1 ELSE NoRef]
  /\ listeners = [i \in Stores |-> <<>>]
  /\ mediaQueryCache = [i \in Stores |-> [q \in Queries |-> NoReg]]
  /\ watching = [i \in Stores |-> FALSE]
  /\ matches = [q \in Queries |-> FALSE]
  /\ isClient = FALSE
  /\ hasWatch = FALSE
  /\ storage \in {[i \in Stores |-> IF i = "A" THEN p ELSE NullPayload] :
                    p \in {NullPayload, V1Payload(Obj1("ct", "auto"), EmptySys)}}
  /\ pending = <<>>
  /\ channel = [i \in Stores |-> <<>>]
  /\ setItemLog = <<>>
  /\ broadcastLog = <<>>
  /\ callCount = 0
  /\ last = NoLast
  /\ steps = MaxBareSteps

NextBare ==
  \/ \E upd \in Updates : DoSetThemes("A", upd)
  \/ \E su \in SystemUpdates : DoUpdateSystemOption("A", su[1], su[2])
  \/ DoGetResolvedThemes("A")
  \/ \E l \in Listeners, immediate \in BOOLEAN : DoSubscribe("A", l, immediate)
  \/ DoSync("A")
  \/ DoRestore("A")
  \/ \E k \in 1..MaxBareSteps : RestoreDone(k)
  \/ \E k \in 1..MaxBareSteps : SetItemDone(k)

SpecBare == InitBare /\ [][NextBare]_vars

\* ------------------------------------------------------------------------
\* Overlapping asynchronous operations of one store: restore() is the first
\* call the application makes, setThemes is called while getItem and
\* earlier setItem operations are pending, and the backend completes them
\* in any order
\* ------------------------------------------------------------------------
OverlapUpdates ==
  { [kind |-> "obj", obj |-> Obj1("cs", "dark")],
    [kind |-> "obj", obj |-> Obj1("ct", "high")] }

InitOverlap ==
  /\ status = [i \in Stores |-> IF i = "A" THEN "live" ELSE "none"]
  /\ registry = [k \in RegKeys |-> "none"]
  /\ currentThemes = [i \in Stores |-> IF i = "A" THEN getDefaultThemes ELSE UndefObj]
  /\ heap = <<ConstructSystemOptions(FALSE, EmptySys)>>
  /\ systemOptions = [i \in Stores |-> IF i = "A" THEN 1 ELSE NoRef]
  /\ listeners = [i \in Stores |-> <<>>]
  /\ mediaQueryCache = [i \in Stores |-> [q \in Queries |-> NoReg]]
  /\ watching = [i \in Stores |-> FALSE]
  /\ matches = [q \in Queries |-> FALSE]
  /\ isClient = TRUE
  /\ hasWatch = TRUE
  /\ storage \in {[i \in Stores |-> IF i = "A" THEN p ELSE NullPayload] :
                    p \in {NullPayload,
                           V1Payload(Obj1("ct", "high"), Sys1("cs", <<"light", "dark">>))}}
  /\ pending = <<>>
  /\ channel = [i \in Stores |-> <<>>]
  /\ setItemLog = <<>>
  /\ broadcastLog = <<>>
  /\ callCount = 0
  /\ last = NoLast
  /\ steps = MaxOverlapSteps

NextOverlap ==
  \/ last.op = "init" /\ DoRestore("A")
  \/ \E upd \in OverlapUpdates : DoSetThemes("A", upd)
  \/ \E k \in 1..MaxOverlapSteps : RestoreDone(k)
  \/ \E k \in 1..MaxOverlapSteps : SetItemDone(k)
  \/ \E k \in 1..MaxOverlapSteps : SetItemFail(k)

SpecOverlap == InitOverlap /\ [][NextOverlap]_vars

\* ------------------------------------------------------------------------
\* Two stores registered under distinct keys in one context, over one
\* backend; the application may pass the same initialState object to both
\* ------------------------------------------------------------------------
\* the initialState object of the application: its systemOptions is the
\* object at reference 1
SharedInitialState == [themes |-> Obj1("cs", "dark"), ref |-> 1]

\* createThemeStore({key: storeKey, config, initialState})
DoCreateWith(storeKey, i) ==
  /\ CanStart
  /\ status[i] = "none"
  /\ Registered(RegistryCreate(RegState, storeKey, i), "create", i,
                ConstructWith(World, i, SharedInitialState), storeKey)
  /\ steps' = steps - 1
  /\ UNCHANGED <<isClient, hasWatch, storage, channel, broadcastLog>>

\* the backend's event reaches the watch callback of every store that
\* called sync(), part_002 lines 121-135; an exception in one callback does
\* not keep the event from the next
RECURSIVE DispatchWatch(_, _, _, _)
DispatchWatch(w, todo, key, payload) ==
  IF todo = <<>> THEN w
  ELSE
    LET i == Head(todo)
        w1 == IF status[i] = "live" /\ watching[i]
                THEN [WatchCallback(w, i, key, payload) EXCEPT !.thrown = FALSE]
                ELSE w
    IN  DispatchWatch(w1, Tail(todo), key, payload)

\* another context writes `payload` under `key`
BackendEvent(key, payload) ==
  /\ CanStart
  /\ \E i \in Stores : Live(i) /\ watching[i]
  /\ Commit("backendEvent", "A", DispatchWatch(World, <<"A", "B">>, key, payload),
            [NoArg EXCEPT !.key = key, !.payload = payload])
  /\ storage' = [i \in Stores |-> IF Has(i) /\ StoreKey(i) = key THEN payload
                                  ELSE storage[i]]
  /\ steps' = steps - 1
  /\ UNCHANGED <<status, registry, listeners, watching, isClient, hasWatch, channel, broadcastLog>>

InitShared ==
  /\ status = [i \in Stores |-> "none"]
  /\ registry = [k \in RegKeys |-> "none"]
  /\ currentThemes = [i \in Stores |-> UndefObj]
  /\ heap = <<EmptySys>>
  /\ systemOptions = [i \in Stores |-> NoRef]
  /\ listeners = [i \in Stores |-> <<>>]
  /\ mediaQueryCache = [i \in Stores |-> [q \in Queries |-> NoReg]]
  /\ watching = [i \in Stores |-> FALSE]
  /\ matches = [q \in Queries |-> FALSE]
  /\ isClient = TRUE
  /\ hasWatch = TRUE
  /\ storage = [i \in Stores |-> NullPayload]
  /\ pending = <<>>
  /\ channel = [i \in Stores |-> <<>>]
  /\ setItemLog = <<>>
  /\ broadcastLog = <<>>
  /\ callCount = 0
  /\ last = NoLast
  /\ steps = MaxSharedSteps

NextShared ==
  \/ DoCreateWith(PACKAGE_NAME, "A")
  \/ DoCreateWith(OtherKey, "B")
  \/ DoCreate(OtherKey, "B")
  \/ \E i \in Stores : DoSetThemes(i, RegistryUpdate)
  \/ \E i \in Stores : DoUpdateSystemOption(i, "cs", <<"light", "dark">>)
  \/ \E i \in Stores : DoSubscribe(i, "l1", TRUE)
  \/ \E i \in Stores : DoSync(i)
  \/ \E i \in Stores : DoRestore(i)
  \/ \E k \in 1..MaxSharedSteps : RestoreDone(k)
  \/ \E k \in RegKeys : BackendEvent(k, RegistryEvent)
  \/ \E k \in RegKeys : DoDestroy(k)

SpecShared == InitShared /\ [][NextShared]_vars

\* ------------------------------------------------------------------------
\* Vocabulary of the properties
\* ------------------------------------------------------------------------
SeqSet(seq) == {seq[n] : n \in 1..Len(seq)}

\* how often listener l was invoked in notification pass p of the last step
Invocations(p, l) ==
  Cardinality({k \in 1..Len(last.notes) : last.notes[k].pass = p /\ last.notes[k].l = l})

\* some dimension of the selection selects an option whose media query is q
SelectsQuery(themes, q) ==
  /\ themes # UndefObj
  /\ \E d \in Dims :
       /\ themes[d] # Absent
       /\ KeyedOption(d, themes[d]).media # NoMedia
       /\ KeyedOption(d, themes[d]).media[1] = q

\* a property's value, undefined when the object itself is
Value(obj, k) == IF obj[k] = Undefined THEN Absent ELSE obj[k]

Subscribed1 == last.pre["A"].lis # <<>>

\* the last step ran one of the mutation paths of store A
MutationPath ==
  \/ last.op \in {"setThemes", "updateSystemOption", "restoreDone"}
  \/ last.op = "watch" /\ last.arg.key = StoreKey("A")
  \/ last.op = "flip" /\ SelectsQuery(last.pre["A"].themes, last.arg.q)

\* the notification passes the last step owes: one for the path itself
\* unless it is setThemes, and one for each setThemes call made in it
PassesOwed ==
  Len(last.calls) + (IF last.op \in {"setThemes", "updateSystemOption"} THEN 0 ELSE 1)

\* C1: every mutation path (setThemes, updateSystemOption, restore, a watch
\* event for the store's key, a flip of a media query the current selection
\* uses) runs exactly one notification pass, and in that pass every
\* registered listener is invoked exactly once.
C1_OnePassPerMutation ==
  (MutationPath /\ Subscribed1) =>
    /\ Len(last.passes) = PassesOwed
    /\ \A p \in 1..Len(last.passes) :
         /\ last.passes[p].done
         /\ \A l \in SeqSet(last.passes[p].lis) : Invocations(p, l) = 1

\* C2: every payload handed to a listener carries getThemes() and
\* getResolvedThemes() as they are at the moment of that invocation, also
\* when a listener changes the store during the pass.
C2_PayloadIsFresh ==
  \A k \in 1..Len(last.notes) :
    /\ last.notes[k].themes = last.notes[k].nowThemes
    /\ last.notes[k].resolved = last.notes[k].nowResolved

\* a pass in which a listener called setThemes and a later listener of the
\* same pass was still to be invoked
C2_Witness ==
  \E k \in 1..Len(last.notes), c \in 1..Len(last.calls) :
    /\ last.calls[c].parent # 0
    /\ last.notes[k].pass = 1
    /\ last.notes[k].themes = last.calls[c].merged
    /\ last.notes[k].themes # last.calls[1].merged

\* C3: setThemes with a partial update changes only the dimensions the
\* update names; the others keep their value and the overrides are as
\* before.  (What the call assigns is `merged`; it is the selection after
\* the call unless a listener called setThemes in turn.)
C3_MergeOnlyNamed ==
  \A c \in 1..Len(last.calls) :
    LET call == last.calls[c]
    IN  /\ \A k \in Keys :
             Value(call.merged, k) =
               (IF call.update[k] # Absent THEN call.update[k] ELSE Value(call.before, k))
        /\ call.sysAfter = call.sysBefore
        /\ (last.op = "setThemes" /\ Len(last.calls) = 1) =>
              /\ currentThemes["A"] = call.merged
              /\ systemOptions["A"] = last.pre["A"].so
              /\ SysValue(World, "A") = last.pre["A"].sys

C3_Witness ==
  /\ last.op = "setThemes"
  /\ Len(last.calls) = 1
  /\ last.calls[1].update = Obj1("ct", "auto")
  /\ last.calls[1].before["cs"] = "dark"
  /\ last.calls[1].before["ct"] = "high"
  /\ currentThemes["A"] = Obj2("cs", "dark", "ct", "auto")

\* a setThemes call of the last step during which no listener called setThemes
Unnested(c) ==
  \A c2 \in 1..Len(last.calls) : last.calls[c2].parent # last.calls[c].id

\* C4 as stated: when setItem is invoked for a setThemes call, getThemes()
\* is the selection that call merged and every registered listener has been
\* handed it.
C4_Claim ==
  \A c \in 1..Len(last.calls) :
    last.calls[c].persisted =>
      /\ last.calls[c].nowThemes = last.calls[c].merged
      /\ SeqSet(last.calls[c].lis) \subseteq last.calls[c].gotMerged

\* C4 (amended): when setItem is invoked for a setThemes call, getThemes()
\* is the selection in the envelope being persisted and the latest payload
\* of every registered listener carries it; it is the selection the call
\* merged unless a listener called setThemes during the pass.
C4_NotifiedBeforeSetItem ==
  \A c \in 1..Len(last.calls) :
    last.calls[c].persisted =>
      /\ last.calls[c].env.themes = last.calls[c].nowThemes
      /\ SeqSet(last.calls[c].lis) \subseteq last.calls[c].upToDate
      /\ Unnested(c) =>
           /\ last.calls[c].nowThemes = last.calls[c].merged
           /\ SeqSet(last.calls[c].lis) \subseteq last.calls[c].gotMerged

C4_Witness ==
  \E c \in 1..Len(last.calls) :
    /\ last.calls[c].persisted
    /\ ~Unnested(c)
    /\ Len(last.calls[c].lis) = 2
    /\ last.calls[c].nowThemes # last.calls[c].merged

\* every setItem invocation carries the whole state of its moment
FullEnvelopes ==
  \A k \in 1..Len(setItemLog) :
    /\ setItemLog[k].env.version = 1
    /\ setItemLog[k].env.themes = setItemLog[k].nowThemes
    /\ setItemLog[k].env.sys = setItemLog[k].nowSys

C6_FlipResolvesAndNotifies ==
  (last.op = "flip" /\ Subscribed1 /\ ~last.pre["A"].matches[last.arg.q]
     /\ last.pre["A"].resolved.ok) =>
    \A d \in Dims :
      LET pre == last.pre["A"]
          option == KeyedOption(d, pre.themes[d])
      IN  (option.media # NoMedia /\ option.media[1] = last.arg.q) =>
            /\ pre.resolved.val[d] = pre.sys[d][2]
            /\ ResolveThemes(World, "A").val[d] = pre.sys[d][1]
            /\ currentThemes["A"] = pre.themes
            /\ \A l \in SeqSet(pre.lis) : Invocations(1, l) = 1

\* C7: a flip of a media query that is registered but that no selected
\* option uses notifies nobody and leaves selection and overrides alone.
C7_IrrelevantFlipIsSilent ==
  (last.op = "flip" /\ last.pre["A"].mq[last.arg.q] # NoReg
     /\ ~SelectsQuery(last.pre["A"].themes, last.arg.q)) =>
    /\ last.notes = <<>>
    /\ last.passes = <<>>
    /\ currentThemes["A"] = last.pre["A"].themes
    /\ systemOptions["A"] = last.pre["A"].so
    /\ SysValue(World, "A") = last.pre["A"].sys

C7_Witness ==
  /\ last.op = "flip" /\ last.pre["A"].mq[last.arg.q] # NoReg
  /\ ~SelectsQuery(last.pre["A"].themes, last.arg.q)
  /\ Subscribed1
  /\ last.pre["A"].themes # UndefObj

\* nothing is in flight: every write completed, every event delivered
Quiescent ==
  /\ pending = <<>>
  /\ \A i \in Stores : channel[i] = <<>>

\* C8: two stores with the same key in two contexts, both syncing: once
\* every write has completed and every event has been delivered, both hold
\* the same selection and it reflects every update made in either context
\* (for each dimension, the value of the last setThemes call that set it).
C8_NoLostUpdate ==
  (Synced /\ Quiescent) =>
    /\ currentThemes["A"] = currentThemes["B"]
    /\ \A k \in 1..Len(setItemLog) : \A d \in Dims :
         (/\ setItemLog[k].update[d] # Absent
          /\ \A j \in 1..Len(setItemLog) :
               setItemLog[j].call > setItemLog[k].call => setItemLog[j].update[d] = Absent)
         => \A i \in Stores : Value(currentThemes[i], d) = setItemLog[k].update[d]

\* the state after the step, as restore would have left it
AsRestore(i, payload) ==
  LET r == RestoreApply(World, i, payload)
  IN  /\ currentThemes'[i] = r.ct[i]
      /\ (IF systemOptions'[i] = NoRef THEN EmptySys ELSE heap'[systemOptions'[i]])
           = SysValue(r, i)

\* C9: a watch event for the store's own key with payload P leaves the
\* store as restore() would with getItem returning P, and notifies every
\* subscriber exactly once.
C9_WatchMergesAsRestore ==
  [][(last'.op = "watch" /\ last'.arg.key = StoreKey("A")) =>
       /\ AsRestore("A", last'.arg.payload)
       /\ Len(last'.passes) = 1
       /\ \A l \in SeqSet(listeners["A"]) :
            Cardinality({k \in 1..Len(last'.notes) :
                           last'.notes[k].pass = 1 /\ last'.notes[k].l = l}) = 1]_vars

\* C10: a watch event for another key changes nothing and notifies nobody.
C10_ForeignKeyIgnored ==
  (last.op = "watch" /\ last.arg.key # StoreKey("A")) =>
    /\ currentThemes["A"] = last.pre["A"].themes
    /\ systemOptions["A"] = last.pre["A"].so
    /\ SysValue(World, "A") = last.pre["A"].sys
    /\ OkVal(ResolveThemes(World, "A")) = last.pre["A"].resolved
    /\ last.notes = <<>>
    /\ last.passes = <<>>

C10_Witness ==
  /\ last.op = "watch" /\ last.arg.key # StoreKey("A")
  /\ Subscribed1
  /\ last.arg.payload.themes # last.pre["A"].themes

\* what the store holds and what went to the backend is as before the step
Untouched(i) ==
  /\ currentThemes[i] = last.pre[i].themes
  /\ systemOptions[i] = last.pre[i].so
  /\ SysValue(World, i) = last.pre[i].sys
  /\ listeners[i] = last.pre[i].lis
  /\ storage[i] = last.pre[i].storage
  /\ Len(setItemLog) = last.pre[i].logLen
  /\ Len(broadcastLog) = last.pre[i].bcLen

\* C11: when the awaited setItem of a setThemes call or the awaited getItem
\* of a restore call rejects, the call's promise rejects and nothing is
\* rolled back: the selection, the overrides and the backend stay as they
\* were (for setThemes: the merged selection already applied and notified),
\* no listener is invoked and nothing is written or broadcast.
C11_RejectionKeepsState ==
  last.op \in {"setItemRejected", "restoreRejected"} =>
    /\ last.thrown
    /\ Untouched("A")
    /\ last.passes = <<>> /\ last.notes = <<>>
    /\ last.op = "setItemRejected" =>
         \E k \in 1..Len(setItemLog) : setItemLog[k].call = last.arg.k

\* a setThemes that changed the selection and notified a subscriber has its
\* setItem rejected
C11_Witness ==
  /\ last.op = "setItemRejected"
  /\ last.thrown
  /\ listeners["A"] # <<>>
  /\ currentThemes["A"] # getDefaultThemes
  /\ \E k \in 1..Len(setItemLog) :
       /\ setItemLog[k].call = last.arg.k
       /\ setItemLog[k].nowThemes = currentThemes["A"]

\* C12: whenever the awaited setItem rejects, the caller of the operation
\* that issued the write (setThemes, or updateSystemOption) holds a promise
\* that rejects with the failure, and setItem is not invoked again.
C12_FailureReported ==
  last.op = "setItemRejected" =>
    /\ last.thrown
    /\ last.arg.returned
    /\ Len(setItemLog) = last.pre["A"].logLen

\* C13: a stored payload that cannot be parsed counts as nothing persisted:
\* getItem yields null instead of raising, so restore() does not fail and
\* goes on as for an empty backend (ending with the defaults selected).
C13_CorruptIsNothing ==
  (last.op = "restore" /\ last.pre["A"].storage = CorruptPayload) =>
    /\ ~last.thrown
    /\ \E k \in 1..Len(pending) :
         pending[k].op = "getItem" /\ pending[k].got = NullPayload

\* store i was handed out by the registry and is registered no more
Unregistered(i) == Has(i) /\ \A k \in RegKeys : registry[k] # i

\* the step ran no notification pass of store i and left its selection alone
Silent(i) ==
  /\ currentThemes[i] = last.pre[i].themes
  /\ \A n \in 1..Len(last.passes) : last.passes[n].store # i
  /\ \A n \in 1..Len(last.notes) : last.notes[n].store # i

\* C14: once a store has been destroyed through the registry, looking its
\* key up fails until a new store is created, its watch callback is
\* detached and cannot be attached again, and neither a media query flip
\* nor a storage event changes its selection or notifies anybody.
C14_DestroyedIsSilent ==
  /\ \A i \in Stores : Unregistered(i) =>
       /\ ~watching[i]
       /\ last.op \in {"flip", "watch"} => Silent(i)
  /\ (last.op = "get" /\ last.arg.reg[last.arg.key] = "none") => last.thrown

\* a store that had resolved the media option was destroyed, and then the
\* media query flipped
C14_Witness ==
  /\ last.op = "flip"
  /\ Unregistered("A")
  /\ mediaQueryCache["A"]["q1"] # NoReg
  /\ last.pre["A"].lis = <<>>
  /\ status["A"] = "destroyed"

\* C15: a destroyed store is terminal: no operation invoked on it later and
\* no completion of an operation pending at destroy time notifies a
\* listener, changes its selection, or calls setItem or broadcast.
C15_DestroyedIsTerminal ==
  \A i \in Stores :
    (last.pre # <<>> /\ Unregistered(i) /\ \A k \in RegKeys : last.arg.reg[k] # i
       /\ last.store = i /\ last.op \notin {"create", "get", "destroy"}) =>
      /\ Silent(i)
      /\ Len(setItemLog) = last.pre[i].logLen
      /\ Len(broadcastLog) = last.pre[i].bcLen

\* C16: createThemeStore for a key that has a store destroys that store
\* before the new one is installed: the key then maps to the new live
\* instance, the old one is destroyed with no listener and no watch left,
\* at no time are two live stores held for one key, and destroying the key
\* afterwards destroys the new instance only.
C16_CreateReplaces ==
  /\ Cardinality({i \in Stores : status[i] = "live"}) <= 1
  /\ \A k \in RegKeys : registry[k] # "none" => status[registry[k]] = "live"
  /\ last.op = "create" =>
       /\ registry[last.arg.key] = last.store
       /\ last.arg.found = last.store
       /\ \A i \in Stores : i = last.arg.reg[last.arg.key] =>
            status[i] = "destroyed" /\ listeners[i] = <<>> /\ ~watching[i]
  /\ (last.op = "destroy" /\ ~last.thrown) =>
       \A i \in Stores : i # last.arg.reg[last.arg.key] =>
         status[i] = last.pre[i].status /\ currentThemes[i] = last.pre[i].themes

\* a second store was created under the key of a store that had a subscriber
C16_Witness ==
  /\ last.op = "create"
  /\ last.store = "B"
  /\ last.pre["A"].lis # <<>>
  /\ last.arg.reg[PACKAGE_NAME] = "A"
  /\ registry[PACKAGE_NAME] = "B"

C18_EnvelopeIsSnapshot ==
  (last.op = "setThemes" /\ last.calls[1].persisted) =>
    /\ last.calls[1].env = GetStateToPersist(World, "A")
    /\ last.calls[1].env.version = 1
    /\ last.calls[1].env.themes = currentThemes["A"]
    /\ last.calls[1].env.ref = systemOptions["A"]
    /\ last.calls[1].env.sys = SysValue(World, "A")
    /\ \E k \in (last.pre["A"].logLen + 1)..Len(setItemLog) :
         /\ setItemLog[k].call = last.calls[1].id
         /\ setItemLog[k].env = GetStateToPersist(World, "A")

\* a setThemes call that changed the selection, with a subscriber
C18_Witness ==
  /\ last.op = "setThemes"
  /\ last.calls[1].persisted
  /\ last.notes # <<>>
  /\ currentThemes["A"] # last.pre["A"].themes
  /\ currentThemes["A"] # last.calls[1].update

C20_RestoreMerges ==
  (last.op = "restoreDone" /\ last.arg.payload.kind = "v1") =>
    /\ currentThemes["A"] = Spread(getDefaultThemes, last.arg.payload.themes)
    /\ \A k \in Keys :
         SysValue(World, "A")[k] =
           (IF last.arg.payload.sys[k] # NoPair THEN last.arg.payload.sys[k]
            ELSE last.pre["A"].sys[k])

\* a restore whose payload lacks cs completes after cs was set to dark
C20_Witness ==
  /\ last.op = "restoreDone"
  /\ last.arg.payload = V1Payload(Obj1("ct", "high"), Sys1("cs", <<"light", "dark">>))
  /\ last.pre["A"].themes["cs"] = "dark"
  /\ currentThemes["A"]["cs"] = "system"
  /\ SysValue(World, "A")["ct"] = <<"standard", "high">>

\* every listener registered before the step was invoked exactly once in it
EachOnce(i) ==
  \A l \in SeqSet(last.pre[i].lis) :
    Cardinality({n \in 1..Len(last.notes) :
                   last.notes[n].store = i /\ last.notes[n].l = l}) = 1

\* C21: restore() with a legacy payload (a bare map, no version) takes the
\* whole payload as the persisted selection: the selection becomes the
\* defaults overlaid with the map (it is what the first listener is handed,
\* and what getThemes() returns unless a listener called setThemes in the
\* pass), and the overrides keep their content.
C21_LegacyRestore ==
  (last.op = "restoreDone" /\ last.arg.payload.kind = "legacy" /\ ~last.thrown) =>
    /\ last.calls = <<>> =>
         currentThemes["A"] = Spread(getDefaultThemes, last.arg.payload.themes)
    /\ last.notes # <<>> =>
         last.notes[1].themes = Spread(getDefaultThemes, last.arg.payload.themes)
    /\ SysValue(World, "A") = last.pre["A"].sys
    /\ Len(last.passes) >= 1

\* a legacy {cs: dark} is restored over a selection whose ct was changed
C21_Witness ==
  /\ last.op = "restoreDone"
  /\ last.arg.payload = LegacyPayload(Obj1("cs", "dark"))
  /\ last.pre["A"].themes["ct"] # "standard"
  /\ currentThemes["A"] = Obj2("cs", "dark", "ct", "standard")
  /\ SysValue(World, "A")["cs"] = <<"dark", "light">>

C23_SubscribeImmediate ==
  /\ last.op = "subscribeImmediate" =>
       /\ ~last.thrown
       /\ Invocations(0, last.arg.l) = 1
       /\ last.notes # <<>>
       /\ last.notes[1].l = last.arg.l
       /\ last.notes[1].pass = 0
       /\ last.notes[1].themes = last.pre["A"].themes
       /\ last.pre["A"].resolved.ok
       /\ last.notes[1].resolved = last.pre["A"].resolved.val
       /\ listeners["A"] = Append(last.pre["A"].lis, last.arg.l)
  /\ last.op = "subscribe" =>
       /\ last.notes = <<>>
       /\ listeners["A"] = Append(last.pre["A"].lis, last.arg.l)

DeclaredView(d, v, m) ==
  LET media == KeyedOption(d, v).media
  IN  IF media = NoMedia THEN v
      ELSE IF m[media[1]] THEN media[2] ELSE media[3]

\* C25: a fresh store (nothing persisted applied, no initial state) selects
\* for every dimension its defaultOption, or its first option when none is
\* declared, and getResolvedThemes() returns the view of these defaults
\* under the current states of the media queries.
C25_FreshDefaults ==
  /\ steps = MaxSteps =>
       /\ \A d \in Dims :
            currentThemes["A"][d] =
              (IF ThemeConfig[d].defaultOption # Absent THEN ThemeConfig[d].defaultOption
               ELSE ThemeConfig[d].options[1].value)
       /\ \A k \in Keys \ Dims : currentThemes["A"][k] = Absent
       /\ ResolveThemes(World, "A").ok
       /\ \A d \in Dims :
            ResolveThemes(World, "A").val[d] =
              DeclaredView(d, currentThemes["A"][d], matches)
  /\ (steps = MaxSteps - 1 /\ last.op = "getResolvedThemes") =>
       /\ ~last.thrown
       /\ last.pre["A"].resolved.ok
       /\ \A d \in Dims :
            last.pre["A"].resolved.val[d] =
              DeclaredView(d, last.pre["A"].themes[d], last.pre["A"].matches)

\* getResolvedThemes() on the fresh store while the media query matches
C25_Witness ==
  /\ steps = MaxSteps - 1
  /\ last.op = "getResolvedThemes"
  /\ last.pre["A"].matches["q1"]
  /\ last.pre["A"].themes = Obj2("cs", "system", "ct", "standard")
  /\ last.pre["A"].resolved.val = Obj2("cs", "dark", "ct", "standard")

\* C26: getResolvedThemes() returns, for every dimension, the selected
\* value itself when the selected option has no media query, and otherwise
\* the first value of the dimension's override pair when the query matches
\* and the second when it does not.
C26_ResolvedMapping ==
  last.op = "getResolvedThemes" =>
    /\ ~last.thrown
    /\ last.pre["A"].resolved.ok
    /\ \A d \in Dims :
         LET v == Value(last.pre["A"].themes, d)
             media == KeyedOption(d, v).media
         IN  v # Absent =>
               last.pre["A"].resolved.val[d] =
                 (IF media = NoMedia THEN v
                  ELSE last.pre["A"].sys[d][IF last.pre["A"].matches[media[1]]
                                              THEN 1 ELSE 2])

\* C27: in every reachable state the selection getThemes() returns has an
\* entry for every dimension of the configuration.
C27_EveryDimensionSelected ==
  /\ currentThemes["A"] # UndefObj
  /\ \A d \in Dims : currentThemes["A"][d] # Absent

\* C28: a store constructed with another store's getStateToPersist() as
\* its initialState (same configuration, same media states) has the same
\* getThemes() and the same getResolvedThemes() as that store.
C28_CloneAgrees ==
  last.op = "clone" =>
    /\ currentThemes["B"] = currentThemes["A"]
    /\ currentThemes["A"] = last.pre["A"].themes
    /\ OkVal(ResolveThemes(World, "A")).ok
    /\ OkVal(ResolveThemes(World, "B")) = OkVal(ResolveThemes(World, "A"))

\* C29: sync() over a backend without watch warns and returns undefined:
\* it does not throw, attaches nothing and changes no state.
C29_SyncWithoutWatch ==
  (last.op = "sync" /\ ~hasWatch) =>
    /\ ~last.thrown
    /\ last.warned
    /\ last.arg.result = "undefined"
    /\ ~watching["A"]
    /\ Untouched("A")
    /\ last.passes = <<>> /\ last.notes = <<>>
    /\ channel["A"] = <<>>

\* sync() is called on a store with a subscriber over such a backend
C29_Witness ==
  /\ last.op = "sync"
  /\ ~hasWatch
  /\ last.warned
  /\ listeners["A"] # <<>>
  /\ ~watching["A"]

\* the selection selects, for some dimension, an option with a media query
SelectsMedia(themes) == \E q \in Queries : SelectsQuery(themes, q)

\* every entry of the selection names a declared dimension and one of its
\* declared options
Declared(themes) ==
  \A k \in Keys :
    themes[k] # Absent => (k \in Dims /\ KeyedOption(k, themes[k]) # NoOption)

\* C30: where isClient is false, resolving a selected media option yields
\* the option's own value with a warning; it does not throw and registers
\* no media query, so getResolvedThemes() of a declared selection is the
\* selection itself.
C30_ServerResolves ==
  ~isClient =>
    /\ \A q \in Queries : mediaQueryCache["A"][q] = NoReg
    /\ \A d \in Dims :
         KeyedOption(d, currentThemes["A"][d]).media # NoMedia =>
           /\ ResolveThemeOption(World, "A", d, KeyedOption(d, currentThemes["A"][d])).ok
           /\ ResolveThemeOption(World, "A", d, KeyedOption(d, currentThemes["A"][d])).val
                = currentThemes["A"][d]
           /\ ResolveThemeOption(World, "A", d, KeyedOption(d, currentThemes["A"][d])).w
                = [World EXCEPT !.warned = TRUE]
    /\ Declared(currentThemes["A"]) =>
         /\ ResolveThemes(World, "A").ok
         /\ ResolveThemes(World, "A").val = currentThemes["A"]
         /\ ResolveThemes(World, "A").w.warned = SelectsMedia(currentThemes["A"])
    /\ (last.op \in {"getResolvedThemes", "subscribeImmediate"}
          /\ Declared(last.pre["A"].themes)) =>
         /\ ~last.thrown
         /\ last.pre["A"].resolved.ok
         /\ last.pre["A"].resolved.val = last.pre["A"].themes
         /\ SelectsMedia(last.pre["A"].themes) => last.warned
    /\ \A n \in 1..Len(last.notes) : last.notes[n].resolved = last.notes[n].themes

\* getResolvedThemes() while the media options of both dimensions are selected
C30_Witness ==
  /\ ~isClient
  /\ last.op = "getResolvedThemes"
  /\ last.warned
  /\ last.pre["A"].themes = Obj2("cs", "system", "ct", "auto")
  /\ last.pre["A"].resolved.val = Obj2("cs", "system", "ct", "auto")

\* C31: a setThemes update that names a dimension the configuration does
\* not declare is accepted: the call does not fail, getThemes() afterwards
\* holds that key and value, and the merged state is handed to setItem,
\* with or without subscribers.
C31_UnknownKeyAccepted ==
  \A c \in 1..Len(last.calls) :
    last.calls[c].update["zz"] # Absent =>
      /\ ~last.calls[c].rejected
      /\ currentThemes[last.calls[c].store]["zz"] = last.calls[c].update["zz"]
      /\ last.calls[c].persisted
      /\ last.calls[c].env.themes = last.calls[c].merged

\* C32: q1 is used by an option of cs and by an option of ct and has one
\* shared change listener.  Once that listener is registered, a flip of q1
\* notifies the subscribers if and only if some dimension currently
\* selects an option that uses q1, whichever option was resolved first.
\* (Stated for the states in which the selection resolves.)
C32_SharedQueryFlip ==
  (/\ last.op = "flip"
   /\ last.pre["A"].mq[last.arg.q] # NoReg
   /\ last.pre["A"].resolved.ok
   /\ last.pre["A"].lis # <<>>) =>
    ((last.notes # <<>>) <=> SelectsQuery(last.pre["A"].themes, last.arg.q))

\* the setItem invocation of the write that broadcast b belongs to
WriteOf(b) ==
  CHOOSE k \in 1..Len(setItemLog) :
    setItemLog[k].store = b.store /\ setItemLog[k].call = b.call

\* C33: every write carries the entire state of the moment of the call:
\* the envelope handed to setItem, and the same envelope when it is handed
\* to broadcast after setItem completed, hold the selection and the
\* overrides of that moment, whatever setThemes or updateSystemOption did
\* while the setItem was pending.
C33_EnvelopeCapturedAtCall ==
  /\ \A k \in 1..Len(setItemLog) :
       /\ setItemLog[k].env.themes = setItemLog[k].nowThemes
       /\ setItemLog[k].env.sys = setItemLog[k].nowSys
  /\ \A n \in 1..Len(broadcastLog) :
       /\ broadcastLog[n].env.themes = setItemLog[WriteOf(broadcastLog[n])].nowThemes
       /\ broadcastLog[n].sysNow = setItemLog[WriteOf(broadcastLog[n])].nowSys

\* the overrides are those the constructor seeded: no updateSystemOption,
\* restore or watch event has touched them
SeededOnly == SysValue(World, "A") = ConstructSystemOptions(FALSE, EmptySys)
                /\ systemOptions["A"] # NoRef

\* the outcome the configuration declares for option o under the media states m
DeclaredOutcome(o, m) == IF m[o.media[1]] THEN o.media[2] ELSE o.media[3]

\* C34: in a store created without initialState, before any
\* updateSystemOption or restore, a selected media option resolves to its
\* own declared outcomes: the ifMatch value when its query matches, the
\* ifNotMatch value otherwise, also in a dimension with two media options.
C34_DeclaredOutcomes ==
  (SeededOnly /\ ResolveThemes(World, "A").ok) =>
    \A d \in Dims :
      KeyedOption(d, currentThemes["A"][d]).media # NoMedia =>
        ResolveThemes(World, "A").val[d] =
          DeclaredOutcome(KeyedOption(d, currentThemes["A"][d]), matches)

\* the setItem invocation of the setThemes call entered last
LatestWrite ==
  setItemLog[CHOOSE k \in 1..Len(setItemLog) :
               \A j \in 1..Len(setItemLog) : setItemLog[j].call <= setItemLog[k].call]

\* the write of setThemes call c completed: setItem resolved and broadcast ran
Completed(c) == \E n \in 1..Len(broadcastLog) : broadcastLog[n].call = c

\* C35: a setThemes call made while restore() awaits getItem is not lost:
\* once restore has run to its end and the write has completed, getThemes()
\* is the selection in the envelope setThemes persisted.
C35_SetDuringRestoreKept ==
  (/\ last.op \in {"restoreDone", "setItemDone"}
   /\ pending = <<>>
   /\ setItemLog # <<>>
   /\ Completed(LatestWrite.call)
   /\ LatestWrite.during) =>
    currentThemes["A"] = LatestWrite.env.themes

\* the index in pending of the setItem of setThemes call c, if it is pending
AwaitingSetItem(c) ==
  \E k \in 1..Len(pending) : pending[k].op = "setItem" /\ pending[k].call = c

\* C36: broadcast is called for a write only after its setItem completed,
\* never for a rejected write; and when the setItem operations of
\* overlapping setThemes calls have all completed, in whatever order, the
\* envelope broadcast last is the store's final state.
C36_BroadcastAfterSetItem ==
  /\ \A n \in 1..Len(broadcastLog) : ~AwaitingSetItem(broadcastLog[n].call)
  /\ last.op = "setItemRejected" =>
       /\ Len(broadcastLog) = last.pre["A"].bcLen
       /\ ~Completed(last.arg.k)
  /\ last.op = "setItemDone" =>
       /\ Len(broadcastLog) = last.pre["A"].bcLen + 1
       /\ broadcastLog[Len(broadcastLog)].call = last.arg.k
  /\ (/\ pending = <<>>
      /\ setItemLog # <<>>
      /\ Len(broadcastLog) = Len(setItemLog)
      /\ currentThemes["A"] = LatestWrite.nowThemes
      /\ SysValue(World, "A") = LatestWrite.nowSys) =>
       /\ broadcastLog[Len(broadcastLog)].env.themes = currentThemes["A"]
       /\ broadcastLog[Len(broadcastLog)].sysNow = SysValue(World, "A")

\* the invocations of the last step in which the callback itself calls
\* setThemes (what ListenerBody does for "l2")
Reactions ==
  {k \in 1..Len(last.notes) :
     /\ last.notes[k].l = "l2"
     /\ last.notes[k].themes["cs"] = "dark"
     /\ last.notes[k].themes["ct"] # "high"}

\* C37: handling a watch event or a media query flip never writes: the
\* store calls neither setItem nor broadcast, and the only setThemes calls
\* of the step are those a subscribed callback makes itself.
C37_NonLocalPathsNeverWrite ==
  last.op \in {"watch", "flip"} =>
    /\ Len(broadcastLog) = last.pre["A"].bcLen
    /\ Len(last.calls) = Cardinality(Reactions)
    /\ Len(setItemLog) <= last.pre["A"].logLen + Cardinality(Reactions)

\* a watch event for the store's key changed the selection and the
\* subscriber was notified
C37_Witness ==
  /\ last.op = "watch"
  /\ last.arg.key = StoreKey("A")
  /\ last.notes # <<>>
  /\ currentThemes["A"] # last.pre["A"].themes
  /\ Len(setItemLog) = last.pre["A"].logLen

\* dimension d declares an option with a media query
DeclaresMedia(d) ==
  \E n \in 1..Len(ThemeConfig[d].options) : ThemeConfig[d].options[n].media # NoMedia

\* C38: in every reachable state of a store, systemOptions holds a pair
\* for every dimension that declares a media option.
C38_OverridesComplete ==
  \A i \in Stores :
    status[i] # "none" =>
      /\ systemOptions[i] # NoRef
      /\ \A d \in Dims : DeclaresMedia(d) => SysValue(World, i)[d] # NoPair

\* the values dimension d may resolve to in store i: the option values the
\* configuration declares for d and the outcomes of d's override pair
AllowedValues(i, d) ==
  {ThemeConfig[d].options[n].value : n \in 1..Len(ThemeConfig[d].options)}
    \cup SeqSet(SysValue(World, i)[d])

\* C39: in every reachable state getResolvedThemes() returns without
\* raising, every notification pass runs to its end, and every resolved
\* value is a declared option value of its dimension or one of the
\* dimension's override outcomes.
C39_ResolveNeverRaises ==
  /\ ResolveThemes(World, "A").ok
  /\ \A d \in Dims : ResolveThemes(World, "A").val[d] \in AllowedValues("A", d)
  /\ \A p \in 1..Len(last.passes) : last.passes[p].done

\* the store the last step operated on
Target ==
  IF last.op \in {"destroy", "backendEvent"} THEN last.arg.reg[last.arg.key]
  ELSE last.store

\* C40: stores registered under distinct keys are independent: setThemes,
\* updateSystemOption, restore, a watch event or destroy on one store
\* leaves the selection, the overrides, the resolved view and the
\* listeners of the other store as they were, also when both stores were
\* constructed from the same initialState object.
C40_StoresIndependent ==
  last.op \in {"setThemes", "updateSystemOption", "restore", "restoreDone",
               "backendEvent", "destroy"} =>
    \A j \in Stores :
      (j # Target /\ last.pre[j].status = "live") =>
        /\ currentThemes[j] = last.pre[j].themes
        /\ SysValue(World, j) = last.pre[j].sys
        /\ OkVal(ResolveThemes(World, j)) = last.pre[j].resolved
        /\ listeners[j] = last.pre[j].lis

====
